---- MODULE Spec2Model ----
(***************************************************************************)
(* Model of BooHints.server.Server (src/BooHints/server.py): one Server    *)
(* object, its child processes, the threads its constructor starts         *)
(* (async consumer, stdout reader, stderr reader), the Timer threads       *)
(* armed by check_timeout, the threads that call query() and the response  *)
(* file start() reads; and of the registry of Servers                      *)
(* (src/BooHints/__init__.py): the threads that call get_server() and the  *)
(* thread that calls reset_servers().                                      *)
(***************************************************************************)
EXTENDS Integers, Sequences, FiniteSets, TLC

\* ---------------------------------------------------------------- bounds
NumCallers == 2       \* threads calling query() synchronously
MaxProcs == 2         \* child processes spawned in one behaviour
MaxQueries == 2       \* query() calls
MaxAsync == 2         \* query_async() calls made by users
MaxSignals == 1       \* ReferenceModified lines emitted by children
MaxGarbage == 1       \* lines that are no JSON written by children
MaxExits == 1         \* children that end on their own
MaxStops == 1         \* reset_servers() calls
NumRegCallers == 2    \* threads calling get_server()
MaxGets == 2          \* get_server() calls
IdleTimeout == 1      \* Server.timeout, in clock ticks
MaxRspLines == 2       \* lines of a response file
MaxErrs == 1          \* lines a child writes to stderr

\* ---------------------------------------------------------------- characters
Hash == 35            \* '#'
Bang == 33            \* '!'
Brace == 123          \* '{', the first character of a JSON object
RefMod == 82          \* stands for the prefix 'ReferenceModified:'
Other == 120          \* 'x', stands for the rest of a line
Invalid == 255        \* a byte that is no UTF-8 text
Dash == 45            \* '-'
Ref == 114            \* 'r'
Out == 111            \* 'o'
Ducky == 100          \* stands for 'ducky'
Space == 32           \* ' ', and the newline that ends a line

\* ---------------------------------------------------------------- threads
NoThread == 0
Callers == 1..NumCallers
Consumer == NumCallers + 1
SpareConsumer == NumCallers + 2
Resetter == NumCallers + 3
TimerIds == (NumCallers + 4)..(NumCallers + 3 + MaxProcs)

\* threading.Thread(target=self.thread_async).start(): one consumer per Server
AsyncThreadsTwo == {Consumer, SpareConsumer}
AsyncThreads == {Consumer}

QueryThreads == Callers \cup {Consumer, SpareConsumer}
Threads == QueryThreads \cup {Resetter} \cup TimerIds

NoProc == 0
Procs == 1..(MaxProcs + 1)
None == 0
Raised == -1
RawLine == -2         \* a line as it was read (a str), not decoded

VARIABLES
    proc,           \* self.proc: NoProc or the process spawned last
    alive,          \* processes whose poll() is None
    nspawn,         \* processes spawned so far
    needs_restart,  \* self._needs_restart
    invalid,        \* self._invalid
    results,        \* self.results (a queue of lines)
    async_queries,  \* self.async_queries (a queue of callback ids)
    lock,           \* the thread holding self.lock, or NoThread
    idle,           \* time.time() - self._last_usage, capped at IdleTimeout + 1
    inbox,          \* per process: request lines written to its stdin, unanswered
    outbox,         \* per process: lines it wrote to stdout, not yet read
    pc,             \* per thread: where it is
    cont,           \* per thread: where it goes on after stop()
    qid,            \* per thread: the id of the query it runs or ran last
    ret,            \* per thread: what its last query() returned
    how,            \* per thread: the path its last query() ended on (what it logged)
    item,           \* per consumer: the callback of the request it took
    rpc,            \* the stdout reader's position
    rp,             \* the process whose stdout the reader reads
    called,         \* callbacks invoked so far, in order
    nq, nasync, nsig, nexits, nstops, ngarbage,
    budget,         \* what the environment does in this behaviour (never changes)
    _SERVERS,       \* the registry: per key the Server it maps to, or NoServer
    nservers,       \* Server objects constructed so far
    gpc,            \* per get_server() thread: where it is
    gkey,           \* per get_server() thread: the key of its call
    got,            \* per get_server() thread: what its last call returned
    ngets,
    arglist,        \* the contents of a list object the callers pass as args
    gargs,          \* per get_server() thread: Server() gets that very object
    epc,            \* the stderr reader's position
    ep,             \* the process whose stderr the reader reads
    errbox,         \* per process: lines it wrote to stderr, not yet read
    log,            \* the kinds of entries the two readers have logged
    nerr,
    rsp_lines,      \* the lines of the response file self.rsp names
    rsp_args,       \* the arguments start() has taken from the response file
    rsp_done        \* start() has read the response file

server == <<proc, needs_restart, invalid, results, async_queries, lock, idle>>
world == <<alive, nspawn, inbox, outbox>>
threads == <<pc, cont, qid, ret, how, item, rpc, rp>>
counts == <<called, nq, nasync, nsig, nexits, nstops, ngarbage, budget>>
registry == <<_SERVERS, nservers, gpc, gkey, got, ngets, arglist, gargs>>
readers == <<epc, ep, errbox, log, nerr>>
files == <<rsp_lines, rsp_args, rsp_done>>
vars == <<server, world, threads, counts, registry, readers, files>>

\* ---------------------------------------------------------------- lines
\* the line a child writes in answer to request q
Response(q) == <<Brace, q>>
SignalLine == <<Hash, Bang, RefMod, Other>>
GarbageLine == <<Other>>
\* an out-of-band diagnostic, a server command the Server does not know, and
\* a line whose bytes are no UTF-8 text
DebugLine == <<Hash, Other>>
CommandLine == <<Hash, Bang, Other>>
BinaryLine == <<Invalid>>
\* what a child may write to stderr
ErrLines == {<<Other>>, DebugLine, <<Brace, 1>>, BinaryLine}

\* line.decode('utf-8') returns the text; it raises when a byte is no UTF-8
Decodes(line) == \A i \in 1..Len(line) : line[i] # Invalid

\* str.startswith
StartsWith(line, prefix) ==
    /\ Len(line) >= Len(prefix)
    /\ SubSeq(line, 1, Len(prefix)) = prefix

\* line[1:]
Rest(line) == SubSeq(line, 2, Len(line))

\* json.loads(resp): the decoded value, or None when it raises
JsonLoads(line) == IF StartsWith(line, <<Brace>>) /\ Len(line) = 2 THEN line[2] ELSE None

\* ---------------------------------------------------------------- response file
\* the lines a response file is made of: -r:x, -o:x, -o:x-o, -r-o, -ducky,
\* x, x-o, the empty line, and -r:x with blanks around it
RspLineSet ==
    {<<Dash, Ref, Other>>, <<Dash, Out, Other>>, <<Dash, Out, Other, Dash, Out>>,
     <<Dash, Ref, Dash, Out>>, <<Dash, Ducky>>, <<Other>>, <<Other, Dash, Out>>,
     <<>>, <<Space, Dash, Ref, Other, Space>>}
RspFiles ==
    UNION {[1..n -> RspLineSet] : n \in 0..MaxRspLines}

\* ln.strip()
RECURSIVE Strip(_)
Strip(ln) ==
    IF ln = <<>> THEN ln
    ELSE IF Head(ln) = Space THEN Strip(Tail(ln))
    ELSE IF ln[Len(ln)] = Space THEN Strip(SubSeq(ln, 1, Len(ln) - 1))
    ELSE ln

\* ln.replace('-o', '-r'): every occurrence, from the left
RECURSIVE Replace(_)
Replace(ln) ==
    IF Len(ln) < 2 THEN ln
    ELSE IF SubSeq(ln, 1, 2) = <<Dash, Out>>
           THEN <<Dash, Ref>> \o Replace(SubSeq(ln, 3, Len(ln)))
           ELSE <<Head(ln)>> \o Replace(Tail(ln))

IsRef(ln) == StartsWith(ln, <<Dash, Ref>>)
IsOut(ln) == StartsWith(ln, <<Dash, Out>>)
IsDucky(ln) == StartsWith(ln, <<Dash, Ducky>>)

\* lines = [ln.strip() for ln in fp.readlines()]
Stripped(lines) == [i \in 1..Len(lines) |-> Strip(lines[i])]

\* the arguments start() adds for the lines of the response file
RspArgs(lines) ==
    LET outs == SelectSeq(Stripped(lines), IsOut) IN
    SelectSeq(Stripped(lines), IsRef)
        \o [i \in 1..Len(outs) |-> Replace(outs[i])]
        \o SelectSeq(Stripped(lines), IsDucky)

\* with open(self.rsp) as fp: ... args += ...
ReadRsp ==
    /\ ~rsp_done
    /\ rsp_done' = TRUE
    /\ rsp_args' = RspArgs(rsp_lines)
    /\ UNCHANGED <<server, world, threads, counts, registry, readers, rsp_lines>>

\* ---------------------------------------------------------------- registry keys
\* the values get_server() is called with
Boo == 1              \* the executable
Flag == 2             \* an argument
RspPattern == 1       \* a pattern for the response file
RspDir == 2           \* the directory that holds a response file
Dirs == 1..2          \* directories: of the source file, or given as cwd
ArgLists == {<<>>, <<Flag>>}
\* the caller's list [Flag] after n calls of args.insert(0, bin) on it
Inserted(n) == [i \in 1..n |-> Boo] \o <<Flag>>
\* cmd is a string, or a list whose tail is put before args
Cmds == {[list |-> FALSE, toks |-> <<Boo>>], [list |-> TRUE, toks |-> <<Boo, Flag>>]}

\* locate_rsp(dirname, pattern): the response file found, named by its directory
locate_rsp(dirname, pattern) == IF dirname = RspDir THEN RspDir ELSE None

\* key = (cmd, tuple(args), cwd, rsp) as get_server() computes it
Key(cmd, args, fname, rsp, cwd) ==
    LET r == IF rsp # None THEN locate_rsp(fname, rsp) ELSE None
        w == IF cwd # None THEN cwd ELSE IF r # None THEN r ELSE fname
        a == IF cmd.list THEN Tail(cmd.toks) \o args ELSE args
    IN  <<Head(cmd.toks), a, w, r>>

Keys ==
    {Key(cmd, args, fname, rsp, cwd) :
        cmd \in Cmds, args \in ArgLists \cup {Inserted(n) : n \in 0..MaxGets}, fname \in Dirs,
        rsp \in {None, RspPattern}, cwd \in {None} \cup Dirs}

NoKey == <<>>
NoServer == 0
\* the Server whose state the model holds
Observed == 1
RegCallers == 1..NumRegCallers

\* _SERVERS = {}
Untracked == [k \in Keys |-> NoServer]
\* _SERVERS after get_server(Boo, [], fname) has constructed the Server
FirstKey == Key([list |-> FALSE, toks |-> <<Boo>>], <<>>, 1, None, None)
Tracked == [k \in Keys |-> IF k = FirstKey THEN Observed ELSE NoServer]

\* ---------------------------------------------------------------- is_alive
\* alive = self.proc and self.proc.poll() is None and hasattr(self.proc, 'stdin')
IsAlive == proc # NoProc /\ proc \in alive

\* the two queues after a call of is_alive(): reset when not alive
ResultsAfterIsAlive == IF IsAlive THEN results ELSE <<>>
AsyncAfterIsAlive == IF IsAlive THEN async_queries ELSE <<>>

\* self.proc = None in Server.__init__
ProcSpawnedAtInit == NoProc + 1
ProcAtInit == NoProc

InitWith(b, r) ==
    /\ budget = b
    /\ _SERVERS = r
    /\ nservers = 1
    /\ gpc = [c \in RegCallers |-> "idle"]
    /\ gkey = [c \in RegCallers |-> NoKey]
    /\ got = [c \in RegCallers |-> NoServer]
    /\ ngets = 0
    /\ arglist = <<Flag>>
    /\ gargs = [c \in RegCallers |-> FALSE]
    /\ epc = "check"
    /\ ep = NoProc
    /\ errbox = [p \in Procs |-> <<>>]
    /\ log = {}
    /\ nerr = 0
    /\ rsp_lines \in b.files
    /\ rsp_args = <<>>
    /\ rsp_done = FALSE
    /\ ngarbage = 0
    /\ proc = ProcAtInit
    /\ alive = {}
    /\ nspawn = 0
    /\ needs_restart = FALSE
    /\ invalid = FALSE
    /\ results = <<>>
    /\ async_queries = <<>>
    /\ lock = NoThread
    /\ idle = 0
    /\ inbox = [p \in Procs |-> <<>>]
    /\ outbox = [p \in Procs |-> <<>>]
    /\ pc = [t \in Threads |->
                IF t \in TimerIds THEN "off"
                ELSE IF t \in {Consumer, SpareConsumer} THEN "get"
                ELSE "idle"]
    /\ cont = [t \in Threads |-> "idle"]
    /\ qid = [t \in QueryThreads |-> 0]
    /\ ret = [t \in QueryThreads |-> None]
    /\ how = [t \in QueryThreads |-> "none"]
    /\ item = [t \in {Consumer, SpareConsumer} |-> 0]
    /\ rpc = "check"
    /\ rp = NoProc
    /\ called = <<>>
    /\ nq = 0 /\ nasync = 0 /\ nsig = 0 /\ nexits = 0 /\ nstops = 0

\* ---------------------------------------------------------------- helpers
\* where a thread is once its query() has returned v (Raised: it raised)
AfterQuery(t, v) ==
    IF t \in Callers THEN "idle" ELSE IF v = Raised THEN "dead" ELSE "cb"

\* the lowest Timer thread not in use
FreeTimer ==
    CHOOSE tm \in TimerIds :
        /\ pc[tm] = "off"
        /\ \A u \in TimerIds : pc[u] = "off" => tm <= u

\* ---------------------------------------------------------------- query()
\* if self._invalid: (the test that short-circuits a query)
ShortCircuitsNever == FALSE
ShortCircuits == invalid

\* the calling threads run the same code, so one order of their first calls
\* stands for all: a caller makes its first call after those numbered below
FirstCallsInOrder(t) == \A u \in Callers : u < t => qid[u] # 0

\* if self._invalid: return None
QueryBegin(t) ==
    /\ pc[t] = (IF t \in Callers THEN "idle" ELSE "begin")
    /\ t \in Callers => /\ t <= budget.callers
                        /\ FirstCallsInOrder(t)
    /\ nq < budget.queries
    /\ nq' = nq + 1
    /\ qid' = [qid EXCEPT ![t] = nq + 1]
    /\ ret' = [ret EXCEPT ![t] = None]
    /\ IF ShortCircuits
         THEN /\ how' = [how EXCEPT ![t] = "invalid"]
              /\ pc' = [pc EXCEPT ![t] = AfterQuery(t, None)]
         ELSE /\ how' = [how EXCEPT ![t] = "none"]
              /\ pc' = [pc EXCEPT ![t] = "lock"]
    /\ UNCHANGED <<server, world, cont, item, rpc, rp,
                   called, nasync, nsig, nexits, nstops, ngarbage, budget, registry, readers, files>>

\* threading.Lock.acquire: blocks until the lock is free
LockFreeAlways == TRUE
LockFree == lock = NoThread

\* with self.lock: (entry)
Acquire(t) ==
    /\ pc[t] = "lock"
    /\ LockFree
    /\ lock' = t
    /\ pc' = [pc EXCEPT ![t] = "start"]
    /\ UNCHANGED <<proc, needs_restart, invalid, results, async_queries, idle,
                   world, cont, qid, ret, how, item, rpc, rp, counts, registry, readers, files>>

\* with self.lock: (exit, by return or by exception): the lock's next holder
LockKeptOnRaise(t, v) == IF v = Raised THEN t ELSE NoThread
LockAfterExit(t, v) == NoThread

\* query() ends with v (Raised: an exception leaves it) on path h
Exit(t, v, h) ==
    /\ lock' = LockAfterExit(t, v)
    /\ ret' = [ret EXCEPT ![t] = v]
    /\ how' = [how EXCEPT ![t] = h]
    /\ pc' = [pc EXCEPT ![t] = AfterQuery(t, v)]

\* elif self.is_alive(): return
AlreadyRunningNever == FALSE
AlreadyRunningHandle == proc # NoProc
AlreadyRunning == IsAlive

\* if self._needs_restart: self._needs_restart = False
RestartFlagKept == needs_restart
RestartFlagAfterStart == FALSE

\* start(), up to the decision to spawn
StartEntry(t) ==
    /\ pc[t] = "start"
    /\ idle' = 0
    /\ IF needs_restart
         THEN /\ needs_restart' = RestartFlagAfterStart
              /\ pc' = [pc EXCEPT ![t] = "stop_a"]
              /\ cont' = [cont EXCEPT ![t] = "spawn"]
              /\ UNCHANGED <<results, async_queries>>
         ELSE /\ pc' = [pc EXCEPT ![t] = IF AlreadyRunning THEN "write" ELSE "spawn"]
              /\ results' = ResultsAfterIsAlive
              /\ async_queries' = AsyncAfterIsAlive
              /\ UNCHANGED <<needs_restart, cont>>
    /\ UNCHANGED <<proc, invalid, lock, world, qid, ret, how, item, rpc, rp, counts, registry, readers, files>>

\* ---------------------------------------------------------------- stop()
\* a process ends: its stdin is closed, what it wrote stays in the pipe
Dead(p) == alive \ {p}
InboxAfterDeath(p) == [inbox EXCEPT ![p] = <<>>]

\* if not self.proc: return / if self.is_alive(): write quit, terminate()
StopA(t) ==
    /\ pc[t] = "stop_a"
    /\ IF proc = NoProc
         THEN /\ pc' = [pc EXCEPT ![t] = cont[t]]
              /\ UNCHANGED <<alive, inbox, results, async_queries>>
         ELSE /\ pc' = [pc EXCEPT ![t] = "stop_b"]
              /\ IF IsAlive
                   THEN /\ \/ alive' = Dead(proc) /\ inbox' = InboxAfterDeath(proc)
                           \/ UNCHANGED <<alive, inbox>>
                        /\ UNCHANGED <<results, async_queries>>
                   ELSE /\ results' = <<>>
                        /\ async_queries' = <<>>
                        /\ UNCHANGED <<alive, inbox>>
    /\ UNCHANGED <<proc, needs_restart, invalid, lock, idle, nspawn, outbox,
                   cont, qid, ret, how, item, rpc, rp, counts, registry, readers, files>>

\* if self.is_alive(): self.proc.kill()
StopB(t) ==
    /\ pc[t] = "stop_b"
    /\ pc' = [pc EXCEPT ![t] = "stop_c"]
    /\ IF IsAlive
         THEN /\ alive' = Dead(proc)
              /\ inbox' = InboxAfterDeath(proc)
              /\ UNCHANGED <<results, async_queries>>
         ELSE /\ results' = <<>>
              /\ async_queries' = <<>>
              /\ UNCHANGED <<alive, inbox>>
    /\ UNCHANGED <<proc, needs_restart, invalid, lock, idle, nspawn, outbox,
                   cont, qid, ret, how, item, rpc, rp, counts, registry, readers, files>>

\* self.proc = None
StopC(t) ==
    /\ pc[t] = "stop_c"
    /\ proc' = NoProc
    /\ pc' = [pc EXCEPT ![t] = cont[t]]
    /\ UNCHANGED <<needs_restart, invalid, results, async_queries, lock, idle,
                   world, cont, qid, ret, how, item, rpc, rp, counts, registry, readers, files>>

\* ---------------------------------------------------------------- start(), the spawn
\* start() never writes self._invalid
InvalidClearedBySpawn == FALSE
InvalidAfterSpawn == invalid

\* self.proc = subprocess.Popen(...); self.check_timeout()
Spawn(t) ==
    /\ pc[t] = "spawn"
    /\ \/ /\ nspawn < MaxProcs
          /\ nspawn' = nspawn + 1
          /\ proc' = nspawn + 1
          /\ alive' = alive \cup {nspawn + 1}
          /\ invalid' = InvalidAfterSpawn
          /\ IF idle > IdleTimeout
               THEN /\ pc' = [pc EXCEPT ![t] = "stop_a"]
                    /\ cont' = [cont EXCEPT ![t] = "write"]
               ELSE /\ pc' = [pc EXCEPT ![t] = "write", ![FreeTimer] = "armed"]
                    /\ cont' = cont
          /\ UNCHANGED <<lock, ret, how>>
       \/ /\ Exit(t, Raised, "raise")
          /\ UNCHANGED <<proc, alive, nspawn, invalid, cont>>
    /\ UNCHANGED <<needs_restart, results, async_queries, idle, inbox, outbox,
                   qid, item, rpc, rp, counts, registry, readers, files>>

\* ---------------------------------------------------------------- query(), locked
\* self.reset_queue(self.results); self.proc.stdin.write(query + '\n')
\* (outside the try: it raises when the handle is None or the child is dead)
Write(t) ==
    /\ pc[t] = "write"
    /\ results' = <<>>
    /\ IF IsAlive
         THEN /\ inbox' = [inbox EXCEPT ![proc] = Append(@, qid[t])]
              /\ pc' = [pc EXCEPT ![t] = "wait"]
              /\ UNCHANGED <<lock, ret, how>>
         ELSE /\ Exit(t, Raised, "broken")
              /\ inbox' = inbox
    /\ UNCHANGED <<proc, needs_restart, invalid, async_queries, idle,
                   alive, nspawn, outbox, cont, qid, item, rpc, rp, counts, registry, readers, files>>

\* resp after resp = self.results.get(); resp = json.loads(resp): when
\* json.loads raises, the assignment does not happen and resp is still the line
RespAfterLoads(line) == IF JsonLoads(line) = None THEN RawLine ELSE JsonLoads(line)

\* resp = self.results.get(timeout=3.0); resp = json.loads(resp); return resp
WaitGet(t) ==
    /\ pc[t] = "wait"
    /\ results # <<>>
    /\ results' = Tail(results)
    /\ Exit(t, RespAfterLoads(Head(results)),
            IF JsonLoads(Head(results)) = None THEN "decode" ELSE "reply")
    /\ UNCHANGED <<proc, needs_restart, invalid, async_queries, idle,
                   world, cont, qid, item, rpc, rp, counts, registry, readers, files>>

\* if not self.is_alive(): self._invalid = True
InvalidAfterTimeoutAlways == TRUE
InvalidAfterTimeoutNever == invalid
InvalidAfterTimeout == invalid \/ ~IsAlive

\* except queue.Empty: ...; return resp
WaitTimeout(t) ==
    /\ pc[t] = "wait"
    /\ results = <<>>
    /\ invalid' = InvalidAfterTimeout
    /\ async_queries' = AsyncAfterIsAlive
    /\ Exit(t, None, "timeout")
    /\ UNCHANGED <<proc, needs_restart, results, idle,
                   world, cont, qid, item, rpc, rp, counts, registry, readers, files>>

\* ---------------------------------------------------------------- async
\* self.async_queries.put((callback, command, kwargs))
QueryAsync ==
    /\ nasync < budget.asyncs
    /\ nasync' = nasync + 1
    /\ async_queries' = Append(async_queries, nasync + 1)
    /\ UNCHANGED <<proc, needs_restart, invalid, results, lock, idle,
                   world, threads, called, nq, nsig, nexits, nstops, ngarbage, budget, registry, readers, files>>

\* callback, command, kwargs = self.async_queries.get()
ConsumerGet(t) ==
    /\ t \in AsyncThreads
    /\ pc[t] = "get"
    /\ async_queries # <<>>
    /\ item' = [item EXCEPT ![t] = Head(async_queries)]
    /\ async_queries' = Tail(async_queries)
    /\ pc' = [pc EXCEPT ![t] = "begin"]
    /\ UNCHANGED <<proc, needs_restart, invalid, results, lock, idle,
                   world, cont, qid, ret, how, rpc, rp, counts, registry, readers, files>>

\* callback(resp): the call begins
CallbackStart(t) ==
    /\ pc[t] = "cb"
    /\ pc' = [pc EXCEPT ![t] = "incb"]
    /\ called' = IF item[t] = 0 THEN called ELSE Append(called, item[t])
    /\ UNCHANGED <<server, world, cont, qid, ret, how, item, rpc, rp,
                   nq, nasync, nsig, nexits, nstops, ngarbage, budget, registry, readers, files>>

\* callback(resp): the call returns, the loop goes on
CallbackEnd(t) ==
    /\ pc[t] = "incb"
    /\ pc' = [pc EXCEPT ![t] = "get"]
    /\ item' = [item EXCEPT ![t] = 0]
    /\ UNCHANGED <<server, world, cont, qid, ret, how, rpc, rp, counts, registry, readers, files>>

\* callback(resp): the caller's callback raises; nothing in thread_async
\* catches it and the thread ends
CallbackRaise(t) ==
    /\ pc[t] = "incb"
    /\ item[t] # 0
    /\ pc' = [pc EXCEPT ![t] = "dead"]
    /\ UNCHANGED <<server, world, cont, qid, ret, how, item, rpc, rp, counts, registry, readers, files>>

\* ---------------------------------------------------------------- stdout reader
\* if not self.is_alive(): time.sleep(0.1); continue
ReaderCheck ==
    /\ rpc = "check"
    /\ rpc' = IF IsAlive THEN "deref" ELSE "check"
    /\ results' = ResultsAfterIsAlive
    /\ async_queries' = AsyncAfterIsAlive
    /\ UNCHANGED <<proc, needs_restart, invalid, lock, idle,
                   world, pc, cont, qid, ret, how, item, rp, counts, registry, readers, files>>

\* self.proc.stdout (AttributeError when self.proc is None by now)
ReaderDeref ==
    /\ rpc = "deref"
    /\ IF proc = NoProc
         THEN rpc' = "dead" /\ rp' = rp
         ELSE rpc' = "read" /\ rp' = proc
    /\ UNCHANGED <<server, world, pc, cont, qid, ret, how, item, counts, registry, readers, files>>

\* server_command(line): the restart flag and the async queue after it
NeedsRestartAfterAnyCommand(line) == TRUE
NeedsRestartAfterCommand(line) ==
    IF StartsWith(line, <<RefMod>>) THEN TRUE ELSE needs_restart
AsyncAfterCommand(line) ==
    IF StartsWith(line, <<RefMod>>) THEN Append(async_queries, 0) ELSE async_queries

\* the result queue after thread_stdout has classified a decoded line
ResultsAfterAnyLine(line) == Append(results, line)
ResultsAfterLine(line) ==
    IF StartsWith(line, <<Hash>>) THEN results ELSE Append(results, line)

\* what thread_stdout logs for a decoded line
LogAfterLine(line) ==
    IF StartsWith(line, <<Hash>>)
      THEN IF StartsWith(Rest(line), <<Bang>>)
             THEN IF StartsWith(Rest(Rest(line)), <<RefMod>>)
                    THEN log
                    ELSE log \cup {<<"info", Rest(Rest(line))>>}
             ELSE log \cup {<<"debug", Rest(line)>>}
      ELSE log

\* line = readline(); decode it, classify it and route it
ReaderRead ==
    /\ rpc = "read"
    /\ rp' = NoProc
    /\ IF outbox[rp] # <<>>
         THEN LET line == Head(outbox[rp]) IN
              /\ outbox' = [outbox EXCEPT ![rp] = Tail(@)]
              /\ IF ~Decodes(line)
                   THEN /\ rpc' = "dead"
                        /\ UNCHANGED <<results, needs_restart, async_queries, log>>
                   ELSE /\ rpc' = "check"
                        /\ results' = ResultsAfterLine(line)
                        /\ log' = LogAfterLine(line)
                        /\ IF StartsWith(line, <<Hash, Bang>>)
                             THEN /\ needs_restart' = NeedsRestartAfterCommand(Rest(Rest(line)))
                                  /\ async_queries' = AsyncAfterCommand(Rest(Rest(line)))
                             ELSE UNCHANGED <<needs_restart, async_queries>>
         ELSE /\ rp \notin alive
              /\ rpc' = "check"
              /\ UNCHANGED <<outbox, results, needs_restart, async_queries, log>>
    /\ UNCHANGED <<proc, invalid, lock, idle, alive, nspawn, inbox,
                   pc, cont, qid, ret, how, item, counts, registry,
                   epc, ep, errbox, nerr, files>>

\* ---------------------------------------------------------------- the stderr reader
\* if not self.is_alive(): sleep and test again
ErrReaderCheck ==
    /\ epc = "check"
    /\ epc' = IF IsAlive THEN "deref" ELSE "check"
    /\ results' = ResultsAfterIsAlive
    /\ async_queries' = AsyncAfterIsAlive
    /\ UNCHANGED <<proc, needs_restart, invalid, lock, idle, world, threads,
                   counts, registry, ep, errbox, log, nerr, files>>

\* self.proc.stderr (AttributeError when self.proc is None by now)
ErrReaderDeref ==
    /\ epc = "deref"
    /\ IF proc = NoProc
         THEN epc' = "dead" /\ ep' = ep
         ELSE epc' = "read" /\ ep' = proc
    /\ UNCHANGED <<server, world, threads, counts, registry, errbox, log, nerr, files>>

\* what thread_stderr logs for a decoded line
LogAfterErrLine(line) ==
    IF StartsWith(line, <<Hash>>)
      THEN log \cup {<<"warning", Rest(line)>>}
      ELSE log \cup {<<"error", line>>}

\* the result queue after thread_stderr has handled a line
ResultsWithErrLine(line) == Append(results, line)
ResultsAfterErrLine(line) == results

\* line = readline(); decode it and log it
ErrReaderRead ==
    /\ epc = "read"
    /\ ep' = NoProc
    /\ IF errbox[ep] # <<>>
         THEN LET line == Head(errbox[ep]) IN
              /\ errbox' = [errbox EXCEPT ![ep] = Tail(@)]
              /\ IF ~Decodes(line)
                   THEN epc' = "dead" /\ UNCHANGED <<results, log>>
                   ELSE /\ epc' = "check"
                        /\ results' = ResultsAfterErrLine(line)
                        /\ log' = LogAfterErrLine(line)
         ELSE /\ ep \notin alive
              /\ epc' = "check"
              /\ UNCHANGED <<errbox, results, log>>
    /\ UNCHANGED <<proc, needs_restart, invalid, async_queries, lock, idle,
                   world, threads, counts, registry, nerr, files>>

\* ---------------------------------------------------------------- the child
\* the child answers the oldest request it has read
ChildRespond(p) ==
    /\ p \in alive
    /\ inbox[p] # <<>>
    /\ inbox' = [inbox EXCEPT ![p] = Tail(@)]
    /\ outbox' = [outbox EXCEPT ![p] = Append(@, Response(Head(inbox[p])))]
    /\ UNCHANGED <<server, alive, nspawn, threads, counts, registry, readers, files>>

\* the child reports a modified reference
ChildSignal(p) ==
    /\ p \in alive
    /\ nsig < budget.signals
    /\ nsig' = nsig + 1
    /\ outbox' = [outbox EXCEPT ![p] = Append(@, SignalLine)]
    /\ UNCHANGED <<server, alive, nspawn, inbox, threads,
                   called, nq, nasync, nexits, nstops, ngarbage, budget, registry, readers, files>>

\* the child writes a line that is no answer
ChildGarbage(p) ==
    /\ p \in alive
    /\ ngarbage < budget.garbage
    /\ ngarbage' = ngarbage + 1
    /\ \E line \in budget.noise :
          outbox' = [outbox EXCEPT ![p] = Append(@, line)]
    /\ UNCHANGED <<server, alive, nspawn, inbox, threads,
                   called, nq, nasync, nsig, nexits, nstops, budget, registry, readers, files>>

\* the child writes a line to stderr
ChildStderr(p) ==
    /\ p \in alive
    /\ nerr < budget.errs
    /\ nerr' = nerr + 1
    /\ \E line \in ErrLines :
          errbox' = [errbox EXCEPT ![p] = Append(@, line)]
    /\ UNCHANGED <<server, world, threads, counts, registry, epc, ep, log, files>>

\* the child ends on its own
ChildExit(p) ==
    /\ p \in alive
    /\ nexits < budget.exits
    /\ nexits' = nexits + 1
    /\ alive' = Dead(p)
    /\ inbox' = InboxAfterDeath(p)
    /\ UNCHANGED <<server, nspawn, outbox, threads,
                   called, nq, nasync, nsig, nstops, ngarbage, budget, registry, readers, files>>

\* ---------------------------------------------------------------- timers
\* time passes
Tick ==
    /\ idle <= IdleTimeout
    /\ idle' = idle + 1
    /\ UNCHANGED <<proc, needs_restart, invalid, results, async_queries, lock,
                   world, threads, counts, registry, readers, files>>

\* elif self.is_alive(): threading.Timer(...).start()
TimerRearmedAlways == "armed"
TimerAfterCheck == IF IsAlive THEN "armed" ELSE "off"

\* check_timeout() run by a threading.Timer
TimerFire(tm) ==
    /\ tm \in TimerIds
    /\ pc[tm] = "armed"
    /\ IF idle > IdleTimeout
         THEN /\ pc' = [pc EXCEPT ![tm] = "stop_a"]
              /\ cont' = [cont EXCEPT ![tm] = "off"]
              /\ UNCHANGED <<results, async_queries>>
         ELSE /\ pc' = [pc EXCEPT ![tm] = TimerAfterCheck]
              /\ results' = ResultsAfterIsAlive
              /\ async_queries' = AsyncAfterIsAlive
              /\ cont' = cont
    /\ UNCHANGED <<proc, needs_restart, invalid, lock, idle,
                   world, qid, ret, how, item, rpc, rp, counts, registry, readers, files>>

\* ---------------------------------------------------------------- get_server
\* the threads run the same code: one order of their first calls stands for all
FirstGetsInOrder(c) == \A d \in RegCallers : d < c => gkey[d] # NoKey

\* key = (cmd, tuple(args), cwd, rsp); if key not in _SERVERS:
GetTest(c) ==
    /\ gpc[c] = "idle"
    /\ FirstGetsInOrder(c)
    /\ ngets < budget.gets
    /\ ngets' = ngets + 1
    /\ \E cmd \in Cmds, literal \in ArgLists, own \in budget.owns, fname \in Dirs,
          rsp \in {None, RspPattern}, cwd \in {None} \cup Dirs :
          LET args == IF own THEN arglist ELSE literal
              key == Key(cmd, args, fname, rsp, cwd) IN
          /\ gkey' = [gkey EXCEPT ![c] = key]
          /\ gpc' = [gpc EXCEPT ![c] = IF _SERVERS[key] = NoServer THEN "create" ELSE "return"]
          /\ gargs' = [gargs EXCEPT ![c] = own /\ ~cmd.list]
    /\ got' = [got EXCEPT ![c] = NoServer]
    /\ UNCHANGED <<server, world, threads, counts, readers, files, _SERVERS, nservers, arglist>>

\* Server.__init__: args.insert(0, bin) on the list object it was given
ArgsAfterInit(c) == IF gargs[c] THEN <<Boo>> \o arglist ELSE arglist

\* _SERVERS[key] = Server(cmd, args, rsp=rsp, cwd=cwd)
GetCreate(c) ==
    /\ gpc[c] = "create"
    /\ arglist' = ArgsAfterInit(c)
    /\ nservers' = nservers + 1
    /\ _SERVERS' = [_SERVERS EXCEPT ![gkey[c]] = nservers + 1]
    /\ gpc' = [gpc EXCEPT ![c] = "return"]
    /\ UNCHANGED <<server, world, threads, counts, readers, files, gkey, got, ngets, gargs>>

\* return _SERVERS[key] (KeyError when the entry is gone by now)
GetReturn(c) ==
    /\ gpc[c] = "return"
    /\ got' = [got EXCEPT ![c] = IF _SERVERS[gkey[c]] = NoServer THEN Raised
                                 ELSE _SERVERS[gkey[c]]]
    /\ gpc' = [gpc EXCEPT ![c] = "idle"]
    /\ UNCHANGED <<server, world, threads, counts, readers, files, _SERVERS, nservers, gkey, ngets,
                   arglist, gargs>>

GetStep ==
    \/ \E c \in RegCallers : GetTest(c)
    \/ \E c \in RegCallers : GetCreate(c)
    \/ \E c \in RegCallers : GetReturn(c)

\* ---------------------------------------------------------------- reset_servers
\* the Servers the registry holds
TrackedServers == {_SERVERS[k] : k \in Keys} \ {NoServer}

\* for server in _SERVERS.values(): server.stop()
\* (the model holds the state of one Server and follows the stop() of that one)
ResetStop ==
    /\ pc[Resetter] = "idle"
    /\ nstops < budget.stops
    /\ nstops' = nstops + 1
    /\ IF Observed \in TrackedServers
         THEN /\ pc' = [pc EXCEPT ![Resetter] = "stop_a"]
              /\ cont' = [cont EXCEPT ![Resetter] = "clear"]
         ELSE /\ pc' = [pc EXCEPT ![Resetter] = "clear"]
              /\ cont' = [cont EXCEPT ![Resetter] = "idle"]
    /\ UNCHANGED <<server, world, qid, ret, how, item, rpc, rp,
                   called, nq, nasync, nsig, nexits, ngarbage, budget, registry, readers, files>>

\* _SERVERS.clear()
ResetClear ==
    /\ pc[Resetter] = "clear"
    /\ _SERVERS' = Untracked
    /\ pc' = [pc EXCEPT ![Resetter] = "idle"]
    /\ UNCHANGED <<server, world, cont, qid, ret, how, item, rpc, rp, counts, readers, files,
                   nservers, gpc, gkey, got, ngets, arglist, gargs>>

ResetStep ==
    \/ ResetStop
    \/ ResetClear

\* ---------------------------------------------------------------- specifications
\* the steps of query() and of the part of start() that does not stop
QueryStep ==
    \/ \E t \in QueryThreads : QueryBegin(t)
    \/ \E t \in QueryThreads : Acquire(t)
    \/ \E t \in QueryThreads : StartEntry(t)
    \/ \E t \in QueryThreads : Spawn(t)
    \/ \E t \in QueryThreads : Write(t)
    \/ \E t \in QueryThreads : WaitGet(t)
    \/ \E t \in QueryThreads : WaitTimeout(t)

StopStep ==
    \/ \E t \in Threads : StopA(t)
    \/ \E t \in Threads : StopB(t)
    \/ \E t \in Threads : StopC(t)

ConsumerStep ==
    \/ \E t \in QueryThreads : ConsumerGet(t)
    \/ \E t \in QueryThreads : CallbackStart(t)
    \/ \E t \in QueryThreads : CallbackEnd(t)

ReaderStep ==
    \/ ReaderCheck
    \/ ReaderDeref
    \/ ReaderRead

ErrReaderStep ==
    \/ ErrReaderCheck
    \/ ErrReaderDeref
    \/ ErrReaderRead

TimerStep ==
    \/ Tick
    \/ \E tm \in TimerIds : TimerFire(tm)

Budget(c, q, a, s, g, e, st, gt) ==
    [callers |-> c, queries |-> q, asyncs |-> a, signals |-> s,
     garbage |-> g, exits |-> e, stops |-> st, gets |-> gt,
     noise |-> {GarbageLine}, errs |-> 0, owns |-> {FALSE},
     files |-> {<<>>}]

\* Spec: threads calling query() on one Server whose child answers, answers
\* late or not at all, writes lines that are no JSON, or ends on its own.
Init == InitWith(Budget(NumCallers, MaxQueries, 0, 0, MaxGarbage, MaxExits, 0, 0), Untracked)

Next ==
    \/ QueryStep
    \/ ReaderStep
    \/ \E p \in Procs : ChildRespond(p)
    \/ \E p \in Procs : ChildGarbage(p)
    \/ \E p \in Procs : ChildExit(p)

Spec == Init /\ [][Next]_vars

\* SpecLife: one caller and the consumer, with everything that starts and
\* stops the child: the idle timers, the restart a child asks for, and
\* children that end on their own.
InitLife == InitWith(Budget(1, MaxQueries, 0, MaxSignals, 0, MaxExits, 0, 0), Untracked)

NextLife ==
    \/ QueryStep
    \/ StopStep
    \/ ConsumerStep
    \/ ReaderStep
    \/ \E p \in Procs : ChildRespond(p)
    \/ \E p \in Procs : ChildSignal(p)
    \/ \E p \in Procs : ChildExit(p)
    \/ TimerStep

SpecLife == InitLife /\ [][NextLife]_vars

\* SpecAsync: users calling query_async(), with callbacks that return or
\* raise, and the consumer thread.
InitAsync == InitWith(Budget(0, MaxAsync + MaxSignals, MaxAsync, MaxSignals, 0, MaxExits, 0, 0),
                      Untracked)

NextAsync ==
    \/ QueryStep
    \/ StopStep
    \/ QueryAsync
    \/ ConsumerStep
    \/ \E t \in QueryThreads : CallbackRaise(t)
    \/ ReaderStep
    \/ \E p \in Procs : ChildRespond(p)
    \/ \E p \in Procs : ChildSignal(p)
    \/ \E p \in Procs : ChildExit(p)

SpecAsync == InitAsync /\ [][NextAsync]_vars

\* SpecLines: one caller and both readers, with a child that writes every
\* kind of line to stdout and to stderr.
NoiseLines == {GarbageLine, DebugLine, CommandLine, BinaryLine}
InitLines ==
    InitWith([Budget(1, MaxQueries, 0, 0, MaxGarbage, 0, 0, 0)
                 EXCEPT !.noise = NoiseLines, !.errs = MaxErrs], Untracked)

NextLines ==
    \/ QueryStep
    \/ ReaderStep
    \/ ErrReaderStep
    \/ \E p \in Procs : ChildRespond(p)
    \/ \E p \in Procs : ChildGarbage(p)
    \/ \E p \in Procs : ChildStderr(p)

SpecLines == InitLines /\ [][NextLines]_vars

\* SpecRegistry: threads calling get_server() and reset_servers() while no
\* query runs on the Server the registry holds at the start.
InitRegistry == InitWith(Budget(0, 0, 0, 0, 0, 0, MaxStops, MaxGets), Tracked)

NextRegistry ==
    \/ GetStep
    \/ ResetStep
    \/ StopA(Resetter)

SpecRegistry == InitRegistry /\ [][NextRegistry]_vars

\* SpecRsp: start() reading a response file, over every file of up to
\* MaxRspLines lines.
InitRsp ==
    InitWith([Budget(0, 0, 0, 0, 0, 0, 0, 0) EXCEPT !.files = RspFiles], Untracked)

NextRsp == ReadRsp

SpecRsp == InitRsp /\ [][NextRsp]_vars

\* SpecArgs: threads calling get_server(), with fresh argument lists or with
\* one list object they keep and pass again.
InitArgs ==
    InitWith([Budget(0, 0, 0, 0, 0, 0, 0, MaxGets) EXCEPT !.owns = BOOLEAN], Untracked)

NextArgs == GetStep

SpecArgs == InitArgs /\ [][NextArgs]_vars

\* SpecReset: reset_servers() and get_server() while a thread calls query()
\* on the Server the registry holds at the start.
InitReset == InitWith(Budget(1, MaxQueries, 0, 0, 0, 0, MaxStops, 1), Tracked)

NextReset ==
    \/ QueryStep
    \/ StopStep
    \/ ReaderStep
    \/ \E p \in Procs : ChildRespond(p)
    \/ GetStep
    \/ ResetStep

SpecReset == InitReset /\ [][NextReset]_vars

\* SpecDiscard: reset_servers() on the Server the registry holds, while users
\* call query_async() on it and its consumer thread runs.
InitDiscard == InitWith(Budget(0, MaxQueries, MaxAsync, 0, 0, 0, MaxStops, 0), Tracked)

NextDiscard ==
    \/ QueryStep
    \/ StopStep
    \/ QueryAsync
    \/ ConsumerStep
    \/ ReaderStep
    \/ \E p \in Procs : ChildRespond(p)
    \/ ResetStep

SpecDiscard == InitDiscard /\ [][NextDiscard]_vars

\* ---------------------------------------------------------------- properties
\* the thread is inside the with self.lock: block of query()
InLocked(t) == pc[t] \in {"start", "stop_a", "stop_b", "stop_c", "spawn", "write", "wait"}

\* thread t takes the step that ends its wait by the timeout
TimesOut(t) == pc[t] = "wait" /\ pc'[t] # "wait" /\ results = <<>>

\* thread t takes the first step of a query()
Begins(t) == pc[t] \in {"idle", "begin"} /\ qid'[t] # qid[t]

\* thread t takes the step of start() that decides whether to spawn
DecidesStart(t) == pc[t] = "start" /\ pc'[t] # "start"

\* some thread is inside stop()
Stopping == \E t \in Threads : pc[t] \in {"stop_a", "stop_b", "stop_c"}

\* C1: at most one query() is inside the locked section of a Server at any
\* time, and the thread inside it is the one that holds the lock, so no
\* second request is written between a request and the end of its wait.
C1_MutualExclusion ==
    /\ Cardinality({t \in QueryThreads : InLocked(t)}) <= 1
    /\ \A t \in QueryThreads : InLocked(t) => lock = t

\* a query waits for its answer while another caller is blocked on the lock
C1_Witness ==
    \E t, u \in QueryThreads : pc[t] = "wait" /\ pc[u] = "lock"

\* C2: a response returned by query() is the answer to the request that
\* query wrote, never the answer to an earlier query.
C2_NoStaleResponse ==
    \A t \in QueryThreads : ret[t] \notin {None, Raised, RawLine} => ret[t] = qid[t]

\* C3: a thread that is not inside the locked section does not hold the
\* lock, whichever way its query() ended (reply, timeout, decode error,
\* exception from start() or from the write).
C3_LockReleased ==
    \A t \in QueryThreads : ~InLocked(t) => lock # t

\* a query() ended by an exception, and another thread then took the lock
C3_Witness ==
    \E t, u \in QueryThreads :
        /\ t # u
        /\ how[t] = "raise" /\ pc[t] = "idle"
        /\ lock = u

\* C4: every live process the Server spawned is the one its handle names.
C4_OneLiveProcess ==
    \A p \in alive : p = proc

\* C5 as stated: a start() that finds a handle set by an earlier start(), no
\* stop() under way and no restart pending returns without spawning.
C5_SecondStartNeverSpawns ==
    [][\A t \in QueryThreads :
          (DecidesStart(t) /\ proc # NoProc /\ ~Stopping /\ ~needs_restart)
              => (pc'[t] = "write" /\ proc' = proc /\ nspawn' = nspawn)]_vars

\* C5 amended: the same, provided the child is still alive at the second
\* call.
C5_IdempotentStart ==
    [][\A t \in QueryThreads :
          (DecidesStart(t) /\ proc # NoProc /\ ~Stopping /\ ~needs_restart
                /\ proc \in alive)
              => (pc'[t] = "write" /\ proc' = proc /\ nspawn' = nspawn)]_vars

\* a later query is about to write to the one process spawned so far, which
\* still holds the unanswered request of an earlier query
C5_Witness ==
    \E t \in QueryThreads :
        /\ pc[t] = "write"
        /\ nspawn = 1 /\ IsAlive
        /\ inbox[proc] # <<>>

\* C6: when the wait of a query() times out, the query returns no response;
\* the Server becomes Invalid if its child is not alive, and its invalid
\* flag is left as it was if the child is alive.
C6_TimeoutInvalidation ==
    [][\A t \in QueryThreads :
          TimesOut(t) =>
              /\ ret'[t] = None
              /\ IsAlive => invalid' = invalid
              /\ ~IsAlive => invalid']_vars

\* a query timed out against a dead child and the Server is Invalid
C6_Witness ==
    /\ invalid
    /\ \E t \in QueryThreads : how[t] = "timeout" /\ ret[t] = None

\* C7 as stated: a query whose child does not respond leaves the Server
\* Invalid once its wait times out.
C7_NoResponseInvalidates ==
    [][\A t \in QueryThreads : TimesOut(t) => invalid']_vars

\* C7 amended: a query whose child does not respond and is no longer alive
\* when the wait times out leaves the Server Invalid, and a query begun
\* after that returns no response at once, without waiting.
C7_DeadChildInvalidates ==
    [][\A t \in QueryThreads :
          /\ (TimesOut(t) /\ ~IsAlive) => invalid'
          /\ (Begins(t) /\ invalid) =>
                (ret'[t] = None /\ pc'[t] \notin {"lock", "wait"})]_vars

\* one query timed out and invalidated the Server, a second one was turned
\* away at once
C7_Witness ==
    /\ invalid
    /\ \E t, u \in QueryThreads :
          /\ how[t] = "timeout" /\ how[u] = "invalid"
          /\ qid[t] < qid[u]
          /\ ret[u] = None

\* C8: a query() that begins while the Server is Invalid returns no response
\* in that step: it does not touch the lock, the process, the queues or any
\* other state of the Server or the child.
C8_InvalidShortCircuit ==
    [][\A t \in QueryThreads :
          (Begins(t) /\ invalid) =>
              /\ ret'[t] = None
              /\ pc'[t] = AfterQuery(t, None)
              /\ UNCHANGED <<server, world>>]_vars

\* a query was turned away by the invalid flag while the lock was free
C8_Witness ==
    \E t \in QueryThreads :
        /\ how[t] = "invalid" /\ pc[t] = "idle"
        /\ lock = NoThread /\ invalid

\* C9: once the invalid flag is set, no step clears it.
C9_InvalidIsTerminal ==
    [][invalid => invalid']_vars

\* the Server is Invalid and a process spawned after that is running
C9_Witness ==
    invalid /\ IsAlive

\* C10: callbacks are invoked in the order their requests were enqueued, and
\* at most one callback of the Server runs at any time.
C10_CallbackOrder ==
    /\ \A i, j \in 1..Len(called) : i < j => called[i] < called[j]
    /\ Cardinality({t \in QueryThreads : pc[t] = "incb"}) <= 1

\* two callbacks were invoked, the first after a query that timed out, while
\* the answer the child gave late is still in the pipe or in the queue
C10_Witness ==
    /\ Len(called) = 2
    /\ \/ results # <<>>
       \/ \E p \in Procs : outbox[p] # <<>>

\* ---------------------------------------------------------------- async queue, lifecycle, registry, errors
\* s is a prefix of t
IsPrefix(s, t) == Len(s) <= Len(t) /\ SubSeq(t, 1, Len(s)) = s

\* the consumer loop takes the oldest pending request
ConsumerTakes ==
    \E t \in AsyncThreads :
        /\ pc[t] = "get" /\ pc'[t] = "begin"
        /\ async_queries # <<>>
        /\ item'[t] = Head(async_queries)
        /\ async_queries' = Tail(async_queries)

\* C11: a pending item leaves the async queue only when the consumer loop
\* takes it: every other step (liveness checks, stop(), restarts) leaves the
\* pending items in the queue, in their order.
C11_OnlyConsumerRemoves ==
    [][IsPrefix(async_queries, async_queries') \/ ConsumerTakes]_vars

\* C12: the step that ends a callback, by return or by exception, puts the
\* consumer loop back at its get(): the loop survives a callback that raises.
C12_ConsumerSurvivesCallback ==
    [][\A t \in AsyncThreads :
          (pc[t] = "incb" /\ pc'[t] # "incb") => pc'[t] = "get"]_vars

\* thread t is inside the stop() that start() calls for a restart
RestartStop(t) == pc[t] \in {"stop_a", "stop_b", "stop_c"} /\ cont[t] = "spawn"

\* some start() has gone through the restart branch
AfterRestart == \E u \in QueryThreads : cont[u] = "spawn"

\* the step of thread t that leaves the spawn either starts one new process
\* and makes it the handle, or raises and starts none
SpawnsOnceOrRaises(t) ==
    \/ /\ nspawn' = nspawn + 1
       /\ proc' = nspawn' /\ proc' \in alive'
       /\ alive' = alive \cup {proc'}
       /\ pc'[t] \in {"write", "stop_a"}
    \/ /\ ret'[t] = Raised
       /\ UNCHANGED <<proc, alive, nspawn>>

IdleStop(t) ==
    /\ pc[t] \in {"stop_a", "stop_b", "stop_c"}
    /\ cont[t] = (IF t \in TimerIds THEN "off" ELSE "write")

\* thread t takes a step of stop() that ends the child
EndsChild(t) == pc'[t] # pc[t] /\ alive' # alive

\* C14: the stop() made by the idle check ends the child only when more than
\* the idle timeout has passed since the last start(), that is since the
\* last query.
C14_IdleStopOnlyWhenIdle ==
    [][\A t \in Threads : (IdleStop(t) /\ EndsChild(t)) => idle > IdleTimeout]_vars

\* the last get_server() call of thread c has returned a Server
Returned(c) == gpc[c] = "idle" /\ got[c] \notin {NoServer, Raised}

\* calls that differ only in the working directory have different keys
CwdDistinguishes ==
    \A cmd \in Cmds, args \in ArgLists, fname \in Dirs, rsp \in {None, RspPattern} :
        \A v, w \in Dirs :
            v # w => Key(cmd, args, fname, rsp, v) # Key(cmd, args, fname, rsp, w)

\* C15: as long as no reset has begun, get_server() calls with the same
\* identity have returned the same Server, calls with different identities
\* (a different working directory is enough) have returned different
\* Servers, and the registry still maps the key of every such call to the
\* Server it returned.
C15_OneServerPerIdentity ==
    nstops = 0 =>
        /\ CwdDistinguishes
        /\ \A c, d \in RegCallers :
              (Returned(c) /\ Returned(d)) => (gkey[c] = gkey[d] <=> got[c] = got[d])
        /\ \A c \in RegCallers : Returned(c) => _SERVERS[gkey[c]] = got[c]

\* reset_servers() takes its last step, after the stop() of the modelled Server
ResetReturns ==
    pc[Resetter] = "clear" /\ pc'[Resetter] = "idle" /\ cont[Resetter] = "clear"

\* thread c constructs a Server and stores it
Creates(c) == gpc[c] = "create" /\ gpc'[c] = "return"

\* C16: when reset_servers() returns, the registry is empty and the Server
\* it held has no process handle and no live process; a get_server() call
\* that finds no entry constructs a Server that did not exist before.
C16_ResetStopsAndEmpties ==
    [][/\ ResetReturns => (_SERVERS' = Untracked /\ proc' = NoProc /\ alive' = {})
       /\ \A c \in RegCallers :
             Creates(c) => (_SERVERS'[gkey[c]] = nservers' /\ nservers' > nservers)]_vars

\* C17: a query() ends by an exception only when the spawn in start()
\* failed: every other failure (timeout, malformed response, child dead or
\* handle cleared at the write, broken pipe) ends it with no response.
C17_OnlySpawnFailureRaises ==
    \A t \in QueryThreads : ret[t] = Raised => how[t] = "raise"

\* thread t takes the step that ends its wait with a line json.loads rejects
FailsToDecode(t) ==
    /\ pc[t] = "wait" /\ pc'[t] # "wait"
    /\ results # <<>> /\ JsonLoads(Head(results)) = None

\* C18: a query() whose line cannot be decoded returns no response and
\* leaves the invalid flag, the process handle and the child as they were.
C18_DecodeFailureReturnsNone ==
    [][\A t \in QueryThreads :
          FailsToDecode(t) =>
              (ret'[t] = None /\ UNCHANGED <<invalid, proc, alive, needs_restart>>)]_vars

\* thread t takes the step in which Popen raises
SpawnFails(t) == pc[t] = "spawn" /\ pc'[t] # "spawn" /\ ret'[t] = Raised

\* C19: the step in which the spawn fails ends the query() by the exception,
\* releases the lock, spawns nothing and leaves the Server without a live
\* process and not Invalid; a later start() that finds no live process goes
\* on to spawn.
C19_SpawnFailureLeavesStopped ==
    [][\A t \in QueryThreads :
          /\ SpawnFails(t) =>
                /\ how'[t] = "raise" /\ pc'[t] = AfterQuery(t, Raised)
                /\ lock' = NoThread
                /\ UNCHANGED <<proc, alive, nspawn>>
                /\ ~IsAlive' /\ ~invalid'
          /\ (DecidesStart(t) /\ ~needs_restart /\ ~IsAlive) => pc'[t] = "spawn"]_vars

\* the answer to the request of thread t is among the lines in self.results
Answered(t) == \E i \in 1..Len(results) : results[i] = Response(qid[t])

\* thread t takes the step that ends its wait with a well-formed line from
\* self.results
GetsLine(t) ==
    /\ pc[t] = "wait" /\ pc'[t] # "wait"
    /\ results # <<>> /\ JsonLoads(Head(results)) # None

\* thread t takes the step that writes its request
Writes(t) == pc[t] = "write" /\ pc'[t] = "wait"

\* C20: a query() writes its request as one line to the child its handle
\* names, and when the answer to that request has arrived by the time the
\* wait ends, the query returns the decoded content of that answer.
C20_ReturnsOwnAnswer ==
    [][\A t \in QueryThreads :
          /\ Writes(t) => inbox'[proc] = Append(inbox[proc], qid[t])
          /\ (GetsLine(t) /\ Answered(t)) => ret'[t] = JsonLoads(Response(qid[t]))]_vars

\* ---------------------------------------------------------------- readers, stop, timers
\* thread_stdout takes a line that decodes as text off the child's stdout
ReadsLine ==
    /\ rpc = "read"
    /\ rpc' # "read"
    /\ outbox[rp] # <<>>
    /\ Decodes(Head(outbox[rp]))
StdoutLine == Head(outbox[rp])

\* C21: the stdout reader classifies every line of text it reads: a line
\* starting with #! goes to server_command (the restart flag and the wake-up
\* query for ReferenceModified, a log entry otherwise) and not to the result
\* queue, any other line starting with # is logged and discarded, and every
\* other line is taken off stdout and put on the result queue once.
C21_StdoutLinesClassified ==
    [][ReadsLine =>
          /\ outbox' = [outbox EXCEPT ![rp] = Tail(@)]
          /\ IF StartsWith(StdoutLine, <<Hash, Bang>>)
               THEN /\ results' = results
                    /\ IF StartsWith(StdoutLine, <<Hash, Bang, RefMod>>)
                         THEN /\ needs_restart'
                              /\ async_queries' = Append(async_queries, 0)
                              /\ log' = log
                         ELSE /\ <<"info", Rest(Rest(StdoutLine))>> \in log'
                              /\ UNCHANGED <<needs_restart, async_queries>>
               ELSE IF StartsWith(StdoutLine, <<Hash>>)
                      THEN /\ results' = results
                           /\ <<"debug", Rest(StdoutLine)>> \in log'
                           /\ UNCHANGED <<needs_restart, async_queries>>
                      ELSE /\ results' = Append(results, StdoutLine)
                           /\ UNCHANGED <<needs_restart, async_queries, log>>]_vars

\* a diagnostic has been logged and discarded while an answer is on the queue
C21_Witness ==
    /\ <<"debug", <<Other>>>> \in log
    /\ results # <<>>
    /\ \A i \in 1..Len(results) : ~StartsWith(results[i], <<Hash>>)

\* thread_stderr takes a line off the child's stderr
ReadsErrLine == epc = "read" /\ epc' # "read" /\ errbox[ep] # <<>>

\* C22: a line read from the child's stderr changes no state of the Server
\* (result queue, async queue, flags, handle, lock, idle clock) and nothing
\* a query returns; a line of text only adds a log entry.
C22_StderrOnlyLogs ==
    [][ReadsErrLine =>
          /\ UNCHANGED <<server, ret, how>>
          /\ IF Decodes(Head(errbox[ep]))
               THEN \E level \in {"warning", "error"} :
                    \E text \in {Head(errbox[ep]), Rest(Head(errbox[ep]))} :
                        log' = log \cup {<<level, text>>}
               ELSE log' = log]_vars

\* a stderr line that looks like an answer was logged as an error while a
\* query waits for its answer
C22_Witness ==
    /\ <<"error", <<Brace, 1>>>> \in log
    /\ \E t \in QueryThreads : pc[t] = "wait" /\ qid[t] = 1

\* C23: the stdout and stderr reader loops run for the whole lifetime of the
\* Server: neither reader ever terminates, also when the handle is cleared
\* or replaced between the reader's liveness check and its read.
C23_ReadersNeverTerminate == rpc # "dead" /\ epc # "dead"

\* C24: a reader that takes a line it cannot decode as text drops the line
\* and keeps running: it goes back to its liveness check, on stdout and on
\* stderr alike.
C24_UndecodableLineDropped ==
    [][/\ (rpc = "read" /\ rpc' # "read" /\ outbox[rp] # <<>>
              /\ ~Decodes(Head(outbox[rp])))
           => (rpc' = "check" /\ outbox' = [outbox EXCEPT ![rp] = Tail(@)])
       /\ (ReadsErrLine /\ ~Decodes(Head(errbox[ep])))
           => (epc' = "check" /\ errbox' = [errbox EXCEPT ![ep] = Tail(@)])]_vars

\* the wake-up query of server_command is queued, or a thread is on its way
\* into start()
RestartOnItsWay ==
    \/ \E i \in 1..Len(async_queries) : async_queries[i] = 0
    \/ \E t \in QueryThreads : pc[t] \in {"begin", "lock", "start"}

\* C25: after the child has emitted #!ReferenceModified the Server is
\* restarted without any caller issuing a query: as long as the restart is
\* pending, the wake-up query is in the async queue or a thread is about to
\* run start(), which restarts the child and clears the flag.
C25_RestartWithoutCaller == needs_restart => RestartOnItsWay

\* C26: a server command line (#!...) that does not start with
\* ReferenceModified: changes nothing of the Server: the restart flag, the
\* invalid flag, the handle, the result queue and the async queue stay as
\* they were when the reader handles it.
C26_UnknownCommandIgnored ==
    [][(ReadsLine /\ StartsWith(StdoutLine, <<Hash, Bang>>)
                  /\ ~StartsWith(StdoutLine, <<Hash, Bang, RefMod>>))
         => UNCHANGED <<needs_restart, invalid, proc, results, async_queries>>]_vars

\* the unsupported command has been handled and no restart is pending
C26_Witness == <<"info", Rest(Rest(CommandLine))>> \in log /\ ~needs_restart

\* thread t returns from stop()
StopReturns(t) == pc[t] \in {"stop_a", "stop_c"} /\ pc'[t] \notin {"stop_a", "stop_b", "stop_c"}

\* C27: stop() always leaves the handle cleared and the process the handle
\* held until then not alive, and a stop() that finds no handle changes
\* nothing of the Server or of its processes.
C27_StopClearsAndKills ==
    [][\A t \in Threads :
          StopReturns(t) =>
              /\ proc' = NoProc
              /\ proc # NoProc => proc \notin alive'
              /\ proc = NoProc => UNCHANGED <<server, world>>]_vars

\* C28: the idle check reschedules itself only while the process is alive
\* and not idle for too long: a firing that finds the process stopped arms
\* no timer, so once the process is stopped and not started again each
\* armed timer is gone after its pending firing.
C28_RearmOnlyWhileAlive ==
    [][\A tm \in TimerIds :
          (TimerFire(tm) /\ pc'[tm] = "armed") => (IsAlive /\ idle <= IdleTimeout)]_vars

\* the child ended on its own within the idle timeout, the timer that was
\* armed for it has fired since and no timer is armed any more
C28_Witness ==
    /\ nspawn = 1 /\ nexits = 1 /\ alive = {}
    /\ idle <= IdleTimeout
    /\ \A t \in Threads : pc[t] \notin {"armed", "stop_a", "stop_b", "stop_c", "spawn"}

\* C29: at most one idle-timeout timer is armed for the Server at any time,
\* across starts, idle stops and restarts.
C29_OneTimerArmed == Cardinality({tm \in TimerIds : pc[tm] = "armed"}) <= 1

\* C30: creating a Server, directly or through get_server, spawns no child:
\* the handle is empty and no process exists until the first query() is
\* made, constructing a Server in get_server touches no process, and a
\* process is only ever spawned by a thread inside start(), holding the lock.
C30_NoSpawnBeforeFirstQuery ==
    /\ [](nq = 0 => (proc = NoProc /\ nspawn = 0 /\ alive = {}))
    /\ [][/\ nservers' # nservers => UNCHANGED <<proc, alive, nspawn>>
          /\ nspawn' # nspawn =>
                \E t \in QueryThreads : pc[t] = "spawn" /\ lock = t]_vars

\* get_server has constructed and returned a Server, the readers run, and
\* with no query made yet there is no process
C30_Witness ==
    /\ nservers > 1
    /\ \E c \in RegCallers : got[c] \notin {NoServer, Raised}
    /\ nq = 0 /\ proc = NoProc /\ nspawn = 0

\* ---------------------------------------------------------------- idle check, invalid flag
\* C31: the stop() made by the idle check never ends the child while a
\* query() is inside the locked section, from its start() to the end of its
\* wait, whatever the interleaving of the timer thread and the querying one.
C31_NoIdleStopDuringQuery ==
    [][\A t \in TimerIds :
          (IdleStop(t) /\ EndsChild(t)) => ~\E u \in QueryThreads : InLocked(u)]_vars

\* C32: a Server becomes Invalid only when its child ended on its own: as
\* long as no child has ended by itself, whatever the idle check and the
\* restarts have stopped, the Server is not Invalid.
C32_InvalidOnlyAfterOwnExit == invalid => nexits > 0

\* C33: once the Server is Invalid, no step spawns a child for it and no
\* step writes a request to a child, also not a step of a query() that had
\* passed the invalid test before the flag was set.
C33_InvalidSpawnsAndWritesNothing ==
    [][invalid =>
          /\ nspawn' = nspawn
          /\ \A p \in Procs : Len(inbox'[p]) <= Len(inbox[p])]_vars

\* C34: a step that ends the child (its own exit, or the idle check's stop)
\* while no query() is in flight leaves the invalid flag as it was; the
\* start() of a later query() that finds no live child and no restart
\* pending goes on to the spawn, and a query leaves the spawn towards its
\* write only with a new live process in the handle. A query reaches its
\* wait, where alone the flag is set, only after writing to a live child.
C34_RespawnAfterQuietExit ==
    [][/\ (alive' # alive /\ alive' \subseteq alive
              /\ \A u \in QueryThreads : pc[u] \in {"idle", "get"})
           => invalid' = invalid
       /\ \A t \in QueryThreads :
            /\ (DecidesStart(t) /\ ~IsAlive /\ ~needs_restart)
                  => (pc'[t] = "spawn" /\ invalid' = invalid /\ inbox' = inbox)
            /\ (pc[t] = "spawn" /\ pc'[t] \in {"write", "stop_a"})
                  => (nspawn' = nspawn + 1 /\ proc' = nspawn' /\ proc' \in alive')
            /\ (pc[t] = "write" /\ pc'[t] = "wait") => IsAlive]_vars

\* the first child ended on its own, the Server is not Invalid, and the
\* second query waits for the answer of the process it spawned
C34_Witness ==
    /\ nspawn = 2 /\ nexits = 1 /\ ~invalid
    /\ proc = 2 /\ IsAlive
    /\ \E t \in QueryThreads : pc[t] = "wait" /\ qid[t] = 2 /\ inbox[2] = <<2>>

\* ---------------------------------------------------------------- registry races, response file
\* C35: when threads call get_server concurrently with the same identity,
\* one Server is constructed for it: no thread constructs a Server for a key
\* the registry already holds (no reset having begun), and calls with the
\* same key that have returned hold the same Server.
C35_ConcurrentGetsShareServer ==
    [][nstops = 0 =>
          /\ \A c \in RegCallers : Creates(c) => _SERVERS[gkey[c]] = NoServer
          /\ \A c, d \in RegCallers :
                (Returned(c)' /\ Returned(d)' /\ gkey'[c] = gkey'[d]) => got'[c] = got'[d]]_vars

\* C36: get_server leaves the caller's arguments list unchanged: no step of
\* a get_server() call changes the contents of the list object it was given
\* (so that a later call with the same object computes the same key and
\* finds the Server of the first call).
C36_ArgumentsUnchanged ==
    [][\A c \in RegCallers : gpc[c] # gpc'[c] => arglist' = arglist]_vars

\* C37: after reset_servers() has returned, the Server it discarded has no
\* live child, whatever async requests were pending on it and whatever its
\* consumer thread does.
C37_DiscardedStaysStopped ==
    (nstops > 0 /\ pc[Resetter] = "idle") => alive = {}

\* C38: the arguments taken from a response file are exactly the lines
\* starting with -r unchanged, the lines starting with -o with that leading
\* flag turned into -r and the rest unchanged, and the lines starting with
\* -ducky unchanged; all other lines contribute nothing. (Lines are
\* taken without the blanks around them, in three groups.)
C38_ResponseFileArguments ==
    rsp_done =>
        LET lines == Stripped(rsp_lines)
            outs == SelectSeq(lines, IsOut)
        IN  rsp_args =
                SelectSeq(lines, IsRef)
                    \o [i \in 1..Len(outs) |->
                            <<Dash, Ref>> \o SubSeq(outs[i], 3, Len(outs[i]))]
                    \o SelectSeq(lines, IsDucky)

====
